---- MODULE Spec2Model ----
(***************************************************************************)
(* recapture.c: play a sound file through JACK output ports while          *)
(* recording JACK input ports to a second file.                            *)
(*                                                                         *)
(* Three threads share two JACK ring buffers and one recap_state_t:        *)
(*   - the reader worker  (common_thread/io_thread/reader_body)            *)
(*   - the writer worker  (common_thread/io_thread/writer_body)            *)
(*   - the JACK realtime thread running process()                          *)
(* plus main(), which creates the workers, raises the can_* flags and      *)
(* joins the workers, and the environment (signals, JACK shutdown).        *)
(*                                                                         *)
(* Modelling conventions                                                   *)
(*   - A ring buffer is the sequence of bytes it currently holds.  As in   *)
(*     libjack, a ring of 2^k bytes stores at most 2^k - 1 bytes, a write  *)
(*     of more bytes than fit is cut short, and so is a read.              *)
(*   - A sample is an integer; it is stored as sample_size bytes and read  *)
(*     back from sample_size bytes (SampleBytes / BytesSample).            *)
(*   - Memory is sequentially consistent; each action is one access to     *)
(*     shared memory together with the thread-local code around it.        *)
(*   - pthread_cond_wait returns only after pthread_cond_signal or by      *)
(*     cancellation (no spurious wake-ups: one waiter per condition).      *)
(*   - The two long counters saturate at MaxCount.                         *)
(***************************************************************************)
EXTENDS Integers, Sequences, FiniteSets, TLC

(***************************************************************************)
(* Bounds of the model.                                                    *)
(***************************************************************************)
\* longest source file, in frames
MaxFrames == 4
\* largest engine cycle (jack_nframes_t nframes), in frames
MaxCycle == 2
\* the long counters overruns/underruns saturate here
MaxCount == 1
\* -b bufsize: the ring size asked for, in samples
MaxRing == 3
\* most channels of the source file and most input ports
MaxChannels == 2

(***************************************************************************)
(* Program constants.                                                      *)
(***************************************************************************)
\* sizeof(recap_sample_t): a 32 bit float
sample_size == 4
\* io_thread_fn result: the worker is finished
FINISHED == -1
\* errno values
EIO == 5
EPIPE == 32

IDLE == "IDLE"
RUNNING == "RUNNING"
DONE == "DONE"

Reader == "reader"
Writer == "writer"
Workers == {Reader, Writer}

VARIABLES
  \* ---- session parameters, fixed at start-up
  channel_count_r,   \* channels of the source file (sf_info.channels)
  channel_count_w,   \* number of input ports (-i list)
  ring_size,         \* -b bufsize, in samples
  cycle,             \* nframes the engine passes to process()
  file_frames,       \* frames in the source file
  flaky,             \* the codec may return short reads / short writes
  samplerate_ok,     \* sf_info.samplerate of the source file is 44100
  spike,             \* frame whose first sample is -1.0, or NoSpike
  \* ---- recap_state_t
  can_play, can_capture, can_read, reading, playing,
  \* ---- ring buffers (bytes held, oldest first)
  rring, wring,
  \* ---- reader worker
  file_pos,          \* frames decoded so far from the source file
  underfill,         \* static int underfill of reader_body
  r_underruns,       \* reader_info.underruns
  \* ---- process info
  overruns, underruns,
  \* ---- JACK port buffers of the current cycle and what was delivered
  out,               \* out[k][i]: output port k, frame i (1-based)
  played,            \* played[k]: samples uninterleave stored on port k
  \* ---- process() position
  ppc, pspace, pidx,
  \* ---- workers (common_thread position and locals)
  wpc, wspace, wstatus, wexit, r_nframes, r_count,
  file_open, closes,
  \* ---- main and environment
  mpc, reader_status, writer_status, session_status,
  engine, cancelled

vars == << channel_count_r, channel_count_w, ring_size, cycle, file_frames, flaky,
           samplerate_ok, spike,
           can_play, can_capture, can_read, reading, playing,
           rring, wring, file_pos, underfill, r_underruns,
           overruns, underruns, out, played, ppc, pspace, pidx,
           wpc, wspace, wstatus, wexit, r_nframes, r_count, file_open, closes,
           mpc, reader_status, writer_status, session_status,
           engine, cancelled >>

params == << channel_count_r, channel_count_w, ring_size, cycle, file_frames, flaky,
             samplerate_ok, spike >>

(***************************************************************************)
(* Helpers.                                                                *)
(***************************************************************************)
Min(a, b) == IF a < b THEN a ELSE b

Bump(c) == Min(c + 1, MaxCount)

RECURSIVE NextPow2(_, _)
NextPow2(p, sz) == IF p >= sz THEN p ELSE NextPow2(2 * p, sz)

\* jack_ringbuffer_create(sample_size * ring_size): rounded up to a power of two
RingBytes == NextPow2(1, sample_size * ring_size)

\* jack_ringbuffer_read_space / jack_ringbuffer_write_space
ReadSpace(r) == Len(r)
WriteSpace(r) == RingBytes - 1 - Len(r)

\* jack_ringbuffer_write: the bytes that fit are stored, the count is returned
RingWriteCount(r, bytes) == Min(Len(bytes), WriteSpace(r))
RingWrite(r, bytes) == r \o SubSeq(bytes, 1, RingWriteCount(r, bytes))

\* jack_ringbuffer_read: at most cnt bytes are removed
RingReadCount(r, cnt) == Min(cnt, Len(r))
RingTake(r, cnt) == SubSeq(r, 1, RingReadCount(r, cnt))
RingDrop(r, cnt) == SubSeq(r, RingReadCount(r, cnt) + 1, Len(r))

\* a float as sample_size bytes in memory, and back
SampleBytes(s) == [j \in 1..sample_size |-> s * sample_size + (j - 1)]
Garbage == 0 - 2
BytesSample(b) ==
  IF b[1] % sample_size = 0 /\ \A j \in 1..sample_size : b[j] = b[1] + (j - 1)
  THEN b[1] \div sample_size
  ELSE Garbage

frame_size_r == channel_count_r * sample_size
frame_size_w == channel_count_w * sample_size

\* no sample of the source file is -1.0
NoSpike == 0 - 1

\* sample of frame f (0-based), channel c (0-based) of the source file
FileSample(f, c) ==
  IF f = spike /\ c = 0 THEN 0 - 1 ELSE f * channel_count_r + c + 1

\* what sf_readf_float stores in buf: frames pos .. pos+k-1, interleaved
FileBytes(pos, k) ==
  [b \in 1..(k * frame_size_r) |->
     LET q == (b - 1) \div sample_size
     IN SampleBytes(FileSample(pos + (q \div channel_count_r), q % channel_count_r))
          [((b - 1) % sample_size) + 1]]

\* sample the engine presents on input port k
InSample(k) == k + 1

\* content of an output buffer the callback did not write
Stale == 0 - 7

Terminated(w) == wpc[w] \in {"exited", "canceled", "canceled_early"}
\* the worker's mutex is free: it is held from pthread_mutex_lock to
\* pthread_mutex_unlock except inside pthread_cond_wait
LockFree(w) == wpc[w] \in {"none", "start", "wait", "exited", "canceled_early"}

(***************************************************************************)
(* Initial state: main() has zeroed its structures and parsed arguments.   *)
(* The session records as many channels as it plays.                       *)
(***************************************************************************)
Start(rings, faults, rates, spikes) ==
  /\ channel_count_r \in 1..MaxChannels
  /\ channel_count_w = channel_count_r
  /\ ring_size \in rings
  /\ cycle \in 1..MaxCycle
  /\ file_frames \in 0..MaxFrames
  /\ flaky \in faults
  /\ samplerate_ok \in rates
  /\ spike \in {NoSpike} \cup {f \in spikes : f < file_frames}
  /\ can_play = FALSE /\ can_capture = FALSE /\ can_read = FALSE
  /\ reading = IDLE /\ playing = IDLE
  /\ rring = << >> /\ wring = << >>
  /\ file_pos = 0 /\ underfill = 0 /\ r_underruns = 0
  /\ overruns = 0 /\ underruns = 0
  /\ out = [k \in 0..(channel_count_r - 1) |-> [i \in 1..cycle |-> Stale]]
  /\ played = [k \in 0..(channel_count_r - 1) |-> << >>]
  /\ ppc = "idle" /\ pspace = 0 /\ pidx = 0
  /\ wpc = [w \in Workers |-> "none"]
  /\ wspace = [w \in Workers |-> 0]
  /\ wstatus = [w \in Workers |-> 0]
  /\ wexit = [w \in Workers |-> 0]
  /\ r_nframes = 0 /\ r_count = 0
  /\ file_open = [w \in Workers |-> FALSE]
  /\ closes = [w \in Workers |-> 0]
  /\ mpc = "setup_writer"
  /\ reader_status = 0 /\ writer_status = 0 /\ session_status = 0
  /\ engine = FALSE /\ cancelled = FALSE

\* any session: the codec may return short counts
Init == Start({MaxRing}, {TRUE}, {TRUE}, {})

\* a session whose codec never returns a short count before the end of the file
InitSession == Start({MaxRing, 2 * MaxRing}, {FALSE}, {TRUE}, {})

InitLive == Start({MaxRing}, {FALSE}, {TRUE}, {})

\* any source file: its rate may differ from 44100, a sample may be -1.0
InitInput == Start({MaxRing}, {FALSE}, BOOLEAN, {1})

(***************************************************************************)
(* main(): setup_writer_thread, setup_reader_thread, jack_activate,        *)
(* run_client.                                                             *)
(***************************************************************************)
state_vars == << can_play, can_capture, can_read, reading, playing >>
reader_vars == << file_pos, underfill, r_underruns, r_nframes, r_count >>
count_vars == << overruns, underruns >>
port_vars == << out, played >>
proc_vars == << ppc, pspace, pidx >>
worker_vars == << wpc, wspace, wstatus, wexit, file_open, closes >>
main_vars == << mpc, reader_status, writer_status, session_status >>

\* setup_writer_thread: sf_open, ring, can_capture = 0, pthread_create
setup_writer_thread ==
  /\ mpc = "setup_writer"
  /\ file_open' = [file_open EXCEPT ![Writer] = TRUE]
  /\ wring' = << >>
  /\ can_capture' = FALSE
  /\ wpc' = [wpc EXCEPT ![Writer] = "start"]
  /\ mpc' = "setup_reader"
  /\ UNCHANGED << params, can_play, can_read, reading, playing, rring,
                  reader_vars, count_vars, port_vars, proc_vars,
                  wspace, wstatus, wexit, closes,
                  reader_status, writer_status, session_status,
                  engine, cancelled >>

\* where pthread_cancel leaves a worker that was at pc
canceled_pc(pc) ==
  IF pc = "start" THEN "canceled_early"
  ELSE IF pc \in {"none", "exited", "canceled", "canceled_early"} THEN pc
  ELSE "canceled"

cleanup_runs_unless_waiting(pc) ==
  pc \notin {"none", "start", "wait", "exited", "canceled", "canceled_early"}

\* io_cleanup runs for a worker cancelled inside its loop
cleanup_runs(pc) == pc \notin {"none", "start", "exited", "canceled", "canceled_early"}

\* setup_reader_thread calls cancel_process when the rate is not 44100, before
\* it has created the reader: pthread_cancel(reader_info->thread_id) is given a
\* thread id that names no thread, which is undefined.  It either finds no
\* thread (ESRCH) or faults and the process dies.
mismatch_outcomes == IF samplerate_ok THEN {"match"} ELSE {"esrch", "fault"}

\* setup_reader_thread: sf_open, the rate test, ring, can_read = 0, pthread_create
setup_reader_thread ==
  /\ mpc = "setup_reader"
  /\ \E outcome \in mismatch_outcomes :
       IF outcome = "fault"
       THEN /\ mpc' = "crashed"
            /\ wpc' = [w \in Workers |-> "none"]
            /\ file_open' = [file_open EXCEPT ![Reader] = TRUE]
            /\ UNCHANGED << rring, can_read, closes >>
       ELSE /\ file_open' = [w \in Workers |->
                               IF w = Reader THEN TRUE
                               ELSE IF outcome = "esrch" /\ cleanup_runs(wpc[w])
                                    THEN FALSE ELSE file_open[w]]
            /\ closes' = [w \in Workers |->
                            IF w = Writer /\ outcome = "esrch" /\ cleanup_runs(wpc[w])
                            THEN closes[w] + 1 ELSE closes[w]]
            /\ wpc' = [w \in Workers |->
                         IF w = Reader THEN "start"
                         ELSE IF outcome = "esrch" THEN canceled_pc(wpc[w])
                              ELSE wpc[w]]
            /\ rring' = << >>
            /\ can_read' = FALSE
            /\ mpc' = "activate"
  /\ UNCHANGED << params, can_play, can_capture, reading, playing, wring,
                  reader_vars, count_vars, port_vars, proc_vars,
                  wspace, wstatus, wexit,
                  reader_status, writer_status, session_status,
                  engine, cancelled >>

\* jack_activate and connect_ports: the engine starts calling process()
jack_activate ==
  /\ mpc = "activate"
  /\ engine' = TRUE
  /\ mpc' = "can_play"
  /\ UNCHANGED << params, state_vars, rring, wring, reader_vars, count_vars,
                  port_vars, proc_vars, worker_vars,
                  reader_status, writer_status, session_status, cancelled >>

\* run_client: state->can_play = 1
set_can_play ==
  /\ mpc = "can_play"
  /\ can_play' = TRUE
  /\ mpc' = "can_capture"
  /\ UNCHANGED << params, can_capture, can_read, reading, playing, rring, wring,
                  reader_vars, count_vars, port_vars, proc_vars, worker_vars,
                  reader_status, writer_status, session_status,
                  engine, cancelled >>

\* run_client: state->can_capture = 1
set_can_capture ==
  /\ mpc = "can_capture"
  /\ can_capture' = TRUE
  /\ mpc' = "can_read"
  /\ UNCHANGED << params, can_play, can_read, reading, playing, rring, wring,
                  reader_vars, count_vars, port_vars, proc_vars, worker_vars,
                  reader_status, writer_status, session_status,
                  engine, cancelled >>

\* run_client: state->can_read = 1
set_can_read ==
  /\ mpc = "can_read"
  /\ can_read' = TRUE
  /\ mpc' = "join_reader"
  /\ UNCHANGED << params, can_play, can_capture, reading, playing, rring, wring,
                  reader_vars, count_vars, port_vars, proc_vars, worker_vars,
                  reader_status, writer_status, session_status,
                  engine, cancelled >>

run_io_thread_canceled_ok(w) ==
  IF wpc[w] = "exited" THEN wexit[w] ELSE 0

\* run_io_thread: pthread_join, then the worker's exit value or EPIPE
run_io_thread(w) ==
  IF wpc[w] = "exited" THEN wexit[w] ELSE EPIPE

join_reader ==
  /\ mpc = "join_reader"
  /\ Terminated(Reader)
  /\ reader_status' = run_io_thread(Reader)
  /\ mpc' = "join_writer"
  /\ UNCHANGED << params, state_vars, rring, wring, reader_vars, count_vars,
                  port_vars, proc_vars, worker_vars,
                  writer_status, session_status, engine, cancelled >>

join_writer ==
  /\ mpc = "join_writer"
  /\ Terminated(Writer)
  /\ writer_status' = run_io_thread(Writer)
  /\ mpc' = "report"
  /\ UNCHANGED << params, state_vars, rring, wring, reader_vars, count_vars,
                  port_vars, proc_vars, worker_vars,
                  reader_status, session_status, engine, cancelled >>

\* run_client's result: reader_status || writer_status || other_status
other_status ==
  IF overruns > 0 \/ underruns + r_underruns > 0 THEN EPIPE ELSE 0

run_client_status ==
  IF reader_status # 0 \/ writer_status # 0 \/ other_status # 0 THEN 1 ELSE 0

\* run_client returns; main calls jack_client_close
report ==
  /\ mpc = "report"
  /\ session_status' = run_client_status
  /\ engine' = FALSE
  /\ mpc' = "done"
  /\ UNCHANGED << params, state_vars, rring, wring, reader_vars, count_vars,
                  port_vars, proc_vars, worker_vars,
                  reader_status, writer_status, cancelled >>

(***************************************************************************)
(* Cancellation: signal_handler and jack_shutdown call cancel_process.     *)
(* Both workers run with PTHREAD_CANCEL_ASYNCHRONOUS: a worker inside its  *)
(* loop ends at once and io_cleanup closes its file; one cancelled before  *)
(* pthread_cleanup_push ends with no handler to run.  The mutex a worker   *)
(* holds stays locked.                                                     *)
(***************************************************************************)
cancel_process ==
  /\ wpc' = [w \in Workers |-> canceled_pc(wpc[w])]
  /\ file_open' = [w \in Workers |-> IF cleanup_runs(wpc[w]) THEN FALSE ELSE file_open[w]]
  /\ closes' = [w \in Workers |-> IF cleanup_runs(wpc[w]) THEN closes[w] + 1 ELSE closes[w]]
  /\ cancelled' = TRUE

\* both workers have been created and main has not yet collected both
\* (pthread_cancel of a worker already joined finds no thread: ESRCH)
ThreadsJoinable ==
  mpc \in {"activate", "can_play", "can_capture", "can_read", "join_reader", "join_writer"}

signal_handler ==
  /\ ThreadsJoinable
  /\ ~cancelled
  /\ cancel_process
  /\ UNCHANGED << params, state_vars, rring, wring, reader_vars, count_vars,
                  port_vars, proc_vars, wspace, wstatus, wexit,
                  main_vars, engine >>

jack_shutdown ==
  /\ ThreadsJoinable
  /\ engine
  /\ ppc = "idle"
  /\ ~cancelled
  /\ cancel_process
  /\ engine' = FALSE
  /\ UNCHANGED << params, state_vars, rring, wring, reader_vars, count_vars,
                  port_vars, proc_vars, wspace, wstatus, wexit,
                  main_vars >>

(***************************************************************************)
(* process(): the JACK realtime callback.                                  *)
(***************************************************************************)
\* content of the output port buffers when the engine hands them over
EngineBuffers(fill) == [k \in 0..(channel_count_r - 1) |-> [i \in 1..cycle |-> fill]]

\* recap_mute: memset every output buffer to zero
recap_mute(buffers) == [k \in DOMAIN buffers |-> [i \in DOMAIN buffers[k] |-> 0]]

\* next_value: read one sample from the ring; -1 when fewer bytes are there
next_value(r) ==
  IF RingReadCount(r, sample_size) < sample_size THEN 0 - 1
  ELSE BytesSample(RingTake(r, sample_size))

\* write_value: write one sample to the ring; -1 when it did not fit
write_value(sample, r) ==
  IF RingWriteCount(r, SampleBytes(sample)) < sample_size THEN 0 - 1 ELSE 0

cycle_entry_without_can_read ==
  IF ~can_play \/ ~can_capture THEN "noop"
  ELSE IF playing # DONE /\ reading # IDLE THEN "space"
  ELSE "signal"

\* where a cycle goes from its entry: return at once unless all three flags
\* are set, else the play/capture block or straight to the signalling
cycle_entry ==
  IF ~can_play \/ ~can_capture \/ ~can_read THEN "noop"
  ELSE IF playing # DONE /\ reading # IDLE THEN "space"
  ELSE "signal"

\* entry of process(): the can_* test, the port buffers, the outer test
process_enter ==
  /\ engine
  /\ ppc = "idle"
  /\ out' = EngineBuffers(Stale)
  /\ ppc' = cycle_entry
  /\ UNCHANGED << params, state_vars, rring, wring, reader_vars, count_vars,
                  played, pspace, pidx, worker_vars, main_vars, engine, cancelled >>

\* if (!state->can_play || !state->can_capture || !state->can_read) return 0;
process_return ==
  /\ ppc = "noop"
  /\ ppc' = "idle"
  /\ UNCHANGED << params, state_vars, rring, wring, reader_vars, count_vars,
                  port_vars, pspace, pidx, worker_vars, main_vars, engine, cancelled >>

\* size_t space = jack_ringbuffer_read_space(rring)
process_space ==
  /\ ppc = "space"
  /\ pspace' = ReadSpace(rring)
  /\ ppc' = "test"
  /\ UNCHANGED << params, state_vars, rring, wring, reader_vars, count_vars,
                  port_vars, pidx, worker_vars, main_vars, engine, cancelled >>

playback_finished_no_eof == pspace = 0

\* the test that ends playback: space == 0 && state->reading == DONE
playback_finished == pspace = 0 /\ reading = DONE

\* if (space == 0 && state->reading == DONE) { playing = DONE; recap_mute } else ...
process_test ==
  /\ ppc = "test"
  /\ IF playback_finished
     THEN /\ playing' = DONE
          /\ out' = recap_mute(out)
          /\ ppc' = "interleave"
     ELSE /\ ppc' = "uninterleave"
          /\ UNCHANGED << playing, out >>
  /\ pidx' = 0
  /\ UNCHANGED << params, can_play, can_capture, can_read, reading, rring, wring,
                  reader_vars, count_vars, played, pspace,
                  worker_vars, main_vars, engine, cancelled >>

\* one turn of uninterleave's inner loop: frame i = pidx / length, port k = pidx % length
uninterleave ==
  /\ ppc = "uninterleave"
  /\ LET i == pidx \div channel_count_r
         k == pidx % channel_count_r
         sample == next_value(rring)
     IN /\ rring' = RingDrop(rring, sample_size)
        /\ IF sample = 0 - 1
           THEN /\ underruns' = Bump(underruns)
                /\ ppc' = "interleave"
                /\ pidx' = 0
                /\ UNCHANGED << out, played >>
           ELSE /\ out' = [out EXCEPT ![k][i + 1] = sample]
                /\ played' = [played EXCEPT ![k] = Append(@, sample)]
                /\ IF pidx + 1 = cycle * channel_count_r
                   THEN ppc' = "interleave" /\ pidx' = 0
                   ELSE ppc' = "uninterleave" /\ pidx' = pidx + 1
                /\ UNCHANGED underruns
  /\ UNCHANGED << params, state_vars, wring, reader_vars, overruns, pspace,
                  worker_vars, main_vars, engine, cancelled >>

\* one turn of interleave's inner loop
interleave ==
  /\ ppc = "interleave"
  /\ LET k == pidx % channel_count_w
         status == write_value(InSample(k), wring)
     IN /\ wring' = RingWrite(wring, SampleBytes(InSample(k)))
        /\ IF status # 0
           THEN /\ overruns' = Bump(overruns)
                /\ ppc' = "signal"
                /\ pidx' = 0
           ELSE /\ IF pidx + 1 = cycle * channel_count_w
                   THEN ppc' = "signal" /\ pidx' = 0
                   ELSE ppc' = "interleave" /\ pidx' = pidx + 1
                /\ UNCHANGED overruns
  /\ UNCHANGED << params, state_vars, rring, reader_vars, underruns, port_vars, pspace,
                  worker_vars, main_vars, engine, cancelled >>

signalled_lost(w) == wpc[w]

signalled_reader_first(w) ==
  IF LockFree(Reader) /\ LockFree(w) /\ wpc[w] = "wait" THEN "test" ELSE wpc[w]

\* pthread_mutex_trylock; pthread_cond_signal; pthread_mutex_unlock
signalled(w) ==
  IF LockFree(w) /\ wpc[w] = "wait" THEN "test" ELSE wpc[w]

\* the two trylock/signal/unlock blocks that end every cycle that got this far
process_signal ==
  /\ ppc = "signal"
  /\ wpc' = [w \in Workers |-> signalled(w)]
  /\ ppc' = "idle"
  /\ UNCHANGED << params, state_vars, rring, wring, reader_vars, count_vars,
                  port_vars, pspace, pidx, wspace, wstatus, wexit, file_open, closes,
                  main_vars, engine, cancelled >>

(***************************************************************************)
(* The workers: common_thread, io_thread, reader_body, writer_body.        *)
(***************************************************************************)
\* common_thread up to the loop: cleanup_push, mutex_lock
common_thread_start(w) ==
  /\ wpc[w] = "start"
  /\ wpc' = [wpc EXCEPT ![w] = "test"]
  /\ UNCHANGED << params, state_vars, rring, wring, reader_vars, count_vars,
                  port_vars, proc_vars, wspace, wstatus, wexit, file_open, closes,
                  main_vars, engine, cancelled >>

reader_can_run_ungated == TRUE
reader_can_run == can_read
writer_can_run == can_capture
reader_is_done == FALSE
writer_is_done == ReadSpace(wring) = 0 /\ playing = DONE
reader_space_whole_ring == RingBytes - 1
reader_space == WriteSpace(rring)
writer_space == ReadSpace(wring)

\* io_thread for the reader: can_run, ring_space, is_done, space > 0
reader_io_thread ==
  /\ wpc[Reader] = "test"
  /\ IF reader_can_run
     THEN /\ wspace' = [wspace EXCEPT ![Reader] = reader_space]
          /\ wpc' = [wpc EXCEPT ![Reader] =
                       IF reader_is_done THEN "exit"
                       ELSE IF reader_space > 0 THEN "body" ELSE "wait"]
          /\ wstatus' = [wstatus EXCEPT ![Reader] = IF reader_is_done THEN FINISHED ELSE 0]
     ELSE /\ wpc' = [wpc EXCEPT ![Reader] = "wait"]
          /\ UNCHANGED << wspace, wstatus >>
  /\ UNCHANGED << params, state_vars, rring, wring, reader_vars, count_vars,
                  port_vars, proc_vars, wexit, file_open, closes,
                  main_vars, engine, cancelled >>

\* the frame counts sf_readf_float may return for a request of n frames
sf_readf_float(n) ==
  LET full == Min(n, file_frames - file_pos)
  IN IF flaky /\ full > 1 THEN 1..full ELSE {full}

reader_branch_flag_first(frame_count) ==
  IF underfill > 0 THEN "eio"
  ELSE IF frame_count = 0 THEN "eof"
  ELSE "push"

reader_branch_tolerant(frame_count) ==
  IF frame_count = 0 THEN "eof" ELSE "push"

\* the branch reader_body takes on frame_count
reader_branch(frame_count) ==
  IF frame_count = 0 THEN "eof"
  ELSE IF underfill > 0 THEN "eio"
  ELSE "push"

\* reader_body up to the ring write
reader_body ==
  /\ wpc[Reader] = "body"
  /\ LET nframes == wspace[Reader] \div frame_size_r
     IN \E frame_count \in sf_readf_float(nframes) :
          /\ r_nframes' = nframes
          /\ r_count' = frame_count
          /\ file_pos' = file_pos + frame_count
          /\ IF reader_branch(frame_count) = "eof"
             THEN /\ reading' = DONE
                  /\ wstatus' = [wstatus EXCEPT ![Reader] = FINISHED]
                  /\ wpc' = [wpc EXCEPT ![Reader] = "exit"]
                  /\ UNCHANGED << rring, r_underruns >>
             ELSE IF reader_branch(frame_count) = "eio"
             THEN /\ wstatus' = [wstatus EXCEPT ![Reader] = EIO]
                  /\ wpc' = [wpc EXCEPT ![Reader] = "exit"]
                  /\ UNCHANGED << reading, rring, r_underruns >>
             ELSE LET size == frame_count * frame_size_r
                      buf == FileBytes(file_pos, frame_count)
                  IN /\ rring' = RingWrite(rring, buf)
                     /\ r_underruns' = IF RingWriteCount(rring, buf) < size
                                       THEN Bump(r_underruns) ELSE r_underruns
                     /\ wpc' = [wpc EXCEPT ![Reader] = "mark"]
                     /\ UNCHANGED << reading, wstatus >>
  /\ UNCHANGED << params, can_play, can_capture, can_read, playing, wring, underfill,
                  count_vars, port_vars, proc_vars, wspace, wexit, file_open, closes,
                  main_vars, engine, cancelled >>

chunk_status_idle(short) == IF short THEN IDLE ELSE RUNNING

\* info->state->reading = RUNNING after every chunk pushed, short or not
chunk_status(short) == RUNNING

\* reader_body after the ring write: reading = RUNNING, the underfill flag
reader_mark ==
  /\ wpc[Reader] = "mark"
  /\ reading' = chunk_status(r_count < r_nframes)
  /\ underfill' = IF r_count < r_nframes /\ underfill = 0 THEN underfill + 1 ELSE underfill
  /\ wpc' = [wpc EXCEPT ![Reader] = "wait"]
  /\ r_nframes' = 0 /\ r_count' = 0
  /\ wspace' = [wspace EXCEPT ![Reader] = 0]
  /\ UNCHANGED << params, can_play, can_capture, can_read, playing, rring, wring,
                  file_pos, r_underruns,
                  count_vars, port_vars, proc_vars, wstatus, wexit,
                  file_open, closes, main_vars, engine, cancelled >>

\* io_thread for the writer: can_run and space = ring_space(info)
writer_io_thread ==
  /\ wpc[Writer] = "test"
  /\ IF writer_can_run
     THEN /\ wspace' = [wspace EXCEPT ![Writer] = writer_space]
          /\ wpc' = [wpc EXCEPT ![Writer] = "is_done"]
     ELSE /\ wpc' = [wpc EXCEPT ![Writer] = "wait"]
          /\ UNCHANGED wspace
  /\ UNCHANGED << params, state_vars, rring, wring, reader_vars, count_vars,
                  port_vars, proc_vars, wstatus, wexit, file_open, closes,
                  main_vars, engine, cancelled >>

\* io_thread for the writer: is_done(info), else space > 0
writer_test_done ==
  /\ wpc[Writer] = "is_done"
  /\ wpc' = [wpc EXCEPT ![Writer] =
               IF writer_is_done THEN "exit"
               ELSE IF wspace[Writer] > 0 THEN "body" ELSE "wait"]
  /\ wstatus' = [wstatus EXCEPT ![Writer] = IF writer_is_done THEN FINISHED ELSE 0]
  /\ UNCHANGED << params, state_vars, rring, wring, reader_vars, count_vars,
                  port_vars, proc_vars, wspace, wexit, file_open, closes,
                  main_vars, engine, cancelled >>

\* the frame counts sf_writef_float may return for n frames
sf_writef_float(n) == IF flaky /\ n > 0 THEN {n - 1, n} ELSE {n}

\* writer_body: jack_ringbuffer_read of space bytes, sf_writef_float of nframes
writer_body ==
  /\ wpc[Writer] = "body"
  /\ LET nframes == wspace[Writer] \div frame_size_w
     IN \E written \in sf_writef_float(nframes) :
          /\ wring' = RingDrop(wring, wspace[Writer])
          /\ wspace' = [wspace EXCEPT ![Writer] = 0]
          /\ IF written < nframes
             THEN /\ wstatus' = [wstatus EXCEPT ![Writer] = EIO]
                  /\ wpc' = [wpc EXCEPT ![Writer] = "exit"]
             ELSE /\ wpc' = [wpc EXCEPT ![Writer] = "wait"]
                  /\ UNCHANGED wstatus
  /\ UNCHANGED << params, state_vars, rring, reader_vars, count_vars,
                  port_vars, proc_vars, wexit, file_open, closes,
                  main_vars, engine, cancelled >>

\* common_thread after the loop: mutex_unlock, *exit, pthread_exit -> io_cleanup
exit_value(status) == IF status = FINISHED THEN 0 ELSE status

common_thread_exit(w) ==
  /\ wpc[w] = "exit"
  /\ wexit' = [wexit EXCEPT ![w] = exit_value(wstatus[w])]
  /\ file_open' = [file_open EXCEPT ![w] = FALSE]
  /\ closes' = [closes EXCEPT ![w] = @ + 1]
  /\ wpc' = [wpc EXCEPT ![w] = "exited"]
  /\ UNCHANGED << params, state_vars, rring, wring, reader_vars, count_vars,
                  port_vars, proc_vars, wspace, wstatus,
                  main_vars, engine, cancelled >>

(***************************************************************************)
(* The program.                                                            *)
(***************************************************************************)
Main ==
  \/ setup_writer_thread \/ setup_reader_thread \/ jack_activate
  \/ set_can_play \/ set_can_capture \/ set_can_read
  \/ join_reader \/ join_writer \/ report

Process ==
  \/ process_enter \/ process_return \/ process_space \/ process_test
  \/ uninterleave \/ interleave
  \/ process_signal

ReaderWorker ==
  \/ common_thread_start(Reader) \/ reader_io_thread \/ reader_body \/ reader_mark
  \/ common_thread_exit(Reader)

WriterWorker ==
  \/ common_thread_start(Writer) \/ writer_io_thread \/ writer_test_done \/ writer_body
  \/ common_thread_exit(Writer)

Next ==
  \/ Main \/ Process \/ ReaderWorker \/ WriterWorker
  \/ signal_handler \/ jack_shutdown

Spec == Init /\ [][Next]_vars

\* a session nobody interrupts
NextSession == Main \/ Process \/ ReaderWorker \/ WriterWorker

SpecSession == InitSession /\ [][NextSession]_vars

SpecInput == InitInput /\ [][NextSession]_vars

\* the engine keeps calling process() and the scheduler lets every thread run
Fairness ==
  /\ WF_vars(Main) /\ WF_vars(Process)
  /\ WF_vars(ReaderWorker) /\ WF_vars(WriterWorker)

LiveSpec == InitLive /\ [][NextSession]_vars /\ Fairness

\* the same scheduling with a codec that may return short counts
LiveFaultSpec == Init /\ [][NextSession]_vars /\ Fairness

(***************************************************************************)
(* Properties.                                                             *)
(***************************************************************************)
Rank(st) == IF st = IDLE THEN 0 ELSE IF st = RUNNING THEN 1 ELSE 2

\* channel k of the source file, frame after frame
FileChannel(k) == [f \in 1..file_frames |-> FileSample(f - 1, k)]

IsPrefix(a, b) == Len(a) <= Len(b) /\ \A i \in 1..Len(a) : a[i] = b[i]

OutSilent == \A k \in DOMAIN out : \A i \in DOMAIN out[k] : out[k][i] = 0

\* C1: in a session that counted no underrun, what the callback delivered on
\* output port k is at every moment the beginning of channel k of the source
\* file, and once playing = DONE it is the whole of channel k.
C1_PlaybackIntegrity ==
  underruns = 0 =>
    \A k \in 0..(channel_count_r - 1) :
      /\ IsPrefix(played[k], FileChannel(k))
      /\ playing = DONE => played[k] = FileChannel(k)

\* C2: once playing = DONE every cycle that has returned left all output
\* port buffers zero.
C2_SilentAfterDone ==
  (playing = DONE /\ ppc = "idle") => OutSilent

\* C3: reading = DONE only when every frame of the source file was decoded.
C3_DoneOnlyAtEndOfFile ==
  reading = DONE => file_pos = file_frames

\* C4: reading never moves backward along IDLE, RUNNING, DONE; playing only
\* ever changes to DONE and never leaves DONE.
C4_StatusMonotone ==
  [][ /\ Rank(reading') >= Rank(reading)
      /\ (playing' # playing => playing' = DONE) ]_vars

C4_Witness ==
  reading = DONE /\ playing = DONE /\ file_frames > 0 /\ Len(played[0]) > 0

\* C5: the callback takes playback samples from the ring only while
\* reading # IDLE, it sets playing = DONE only when the playback ring is empty
\* and reading = DONE, and so playing = DONE implies reading = DONE and an
\* empty playback ring.
C5_PlaybackGate ==
  /\ [](playing = DONE => (reading = DONE /\ rring = << >>))
  /\ [][ /\ (Len(rring') < Len(rring) => reading # IDLE)
         /\ (playing # DONE /\ playing' = DONE => (rring = << >> /\ reading = DONE)) ]_vars

C5_Witness ==
  playing = DONE /\ file_frames > 0 /\ Len(played[0]) = file_frames

\* a step of reader_body proper (not a cancellation)
ReaderBodyStep == wpc[Reader] = "body" /\ wpc'[Reader] \in {"mark", "exit"}
ShortRead == r_count' > 0 /\ r_count' < r_nframes'

\* C6: a first short, nonzero chunk does not fail the reader: the frames are
\* pushed, reading becomes RUNNING and underfill is flagged; a chunk read of
\* zero frames, also with the flag set, sets reading = DONE and ends the
\* reader with exit value 0.
C6_ShortThenEof ==
  /\ [][ /\ (ReaderBodyStep /\ underfill = 0 /\ ShortRead) =>
              /\ wpc'[Reader] = "mark"
              /\ wstatus'[Reader] = 0
              /\ rring' = rring \o FileBytes(file_pos, r_count')
         /\ (wpc[Reader] = "mark" /\ wpc'[Reader] = "wait" /\ r_count < r_nframes) =>
              (reading' = RUNNING /\ underfill' = 1)
         /\ (ReaderBodyStep /\ r_count' = 0) =>
              /\ reading' = DONE
              /\ wstatus'[Reader] = FINISHED
              /\ wpc'[Reader] = "exit" ]_vars
  /\ []((wpc[Reader] = "exited" /\ r_count = 0) => (wexit[Reader] = 0 /\ reading = DONE))

C6_Witness ==
  wpc[Reader] = "exited" /\ underfill = 1 /\ r_count = 0 /\ wexit[Reader] = 0
    /\ reading = DONE

\* C7: with underfill flagged, a chunk read that is again short and nonzero
\* ends the reader with EIO at once: nothing is pushed, reading is not set to
\* DONE, and the exit value is EIO.
C7_SecondShortReadFails ==
  /\ [][ (ReaderBodyStep /\ underfill > 0 /\ ShortRead) =>
            /\ wstatus'[Reader] = EIO
            /\ wpc'[Reader] = "exit"
            /\ reading' = reading /\ reading # DONE
            /\ rring' = rring ]_vars
  /\ []((wpc[Reader] = "exited" /\ underfill > 0 /\ r_count > 0)
          => (wexit[Reader] = EIO /\ reading # DONE))

C7_Witness ==
  wpc[Reader] = "exited" /\ underfill = 1 /\ r_count > 0 /\ r_count < r_nframes
    /\ wexit[Reader] = EIO /\ reading = RUNNING

\* C8: a complete session with no cancellation and no codec failure, whose
\* ring holds at least two engine cycles of frames, ends with all three
\* counters zero and reports success, also when the source length is not a
\* multiple of the cycle size.
RingFrames == (RingBytes - 1) \div frame_size_r
C8_CleanSession ==
  (mpc = "done" /\ ~cancelled /\ ~flaky /\ RingFrames >= 2 * cycle)
    => (overruns = 0 /\ underruns = 0 /\ r_underruns = 0 /\ session_status = 0)

\* C9: after a signal or a JACK shutdown both workers have terminated, and a
\* worker that left its loop (by return, by EIO or cancelled anywhere inside
\* it) has had its file closed exactly once; no file is closed twice.
C9_CancelClosesFiles ==
  /\ cancelled => \A w \in Workers : Terminated(w)
  /\ \A w \in Workers :
       /\ closes[w] <= 1
       /\ wpc[w] \in {"exited", "canceled"} => (closes[w] = 1 /\ ~file_open[w])
       /\ wpc[w] \in {"test", "is_done", "body", "mark", "exit", "wait"} =>
            (closes[w] = 0 /\ file_open[w])

C9_Witness ==
  cancelled /\ wpc[Reader] = "canceled" /\ wpc[Writer] = "canceled"
    /\ closes[Reader] = 1 /\ closes[Writer] = 1 /\ rring # << >>

SessionOver ==
  mpc = "done" /\ reader_status = 0 /\ writer_status = 0
    /\ reading = DONE /\ playing = DONE

\* C10: in a session with a finite file, a codec that does not fail, no
\* cancellation and an engine that keeps running cycles, eventually reading is
\* DONE, then playing is DONE, then the writer finds the capture ring empty
\* and returns; both workers exit with 0 and main returns from both joins.
C10_SessionTerminates ==
  /\ <>SessionOver
  /\ [](playing = DONE => reading = DONE)
  /\ [](wpc[Writer] \in {"exit", "exited"} => playing = DONE)
  /\ [][ (wpc[Writer] = "is_done" /\ wpc'[Writer] = "exit") => wring = << >> ]_vars

C10_Witness == SessionOver /\ file_frames = MaxFrames /\ Len(played[0]) > 0

ReaderFailed == wpc[Reader] = "exited" /\ wexit[Reader] = EIO

\* C11: when the reader has ended with an I/O error, nothing is cancelled and
\* the engine keeps running cycles, eventually the writer has terminated too,
\* main has joined both workers and the session reports failure.
C11_ReaderFailureEndsSession ==
  [](ReaderFailed => <>(mpc = "done" /\ Terminated(Writer) /\ session_status # 0))

\* C12: when the rate of the source file is not the expected rate, both
\* workers are cancelled before they do any work: the reader never decodes a
\* frame into the playback ring, the writer never reaches writer_body and the
\* callback never plays a sample.
C12_MismatchAborts ==
  ~samplerate_ok =>
    /\ file_pos = 0 /\ rring = << >>
    /\ \A k \in DOMAIN played : played[k] = << >>
    /\ wpc[Writer] \notin {"body", "exit", "exited"}
    /\ (mpc \notin {"setup_writer", "setup_reader"} =>
          \A w \in Workers : wpc[w] \in {"none", "canceled", "canceled_early"})

WorkersClean == \A w \in Workers : wpc[w] = "exited" /\ wexit[w] = 0
CountersZero == overruns = 0 /\ underruns = 0 /\ r_underruns = 0

\* C13: when run_client returns after both joins, the session status is 0
\* exactly when both workers exited with 0 (no I/O error, not cancelled) and
\* the three counters are zero; it is nonzero otherwise.
C13_StatusIffClean ==
  [][ (mpc = "report" /\ mpc' = "done") =>
        /\ (session_status' = 0 <=> (WorkersClean /\ CountersZero))
        /\ session_status' \in {0, 1} ]_vars

C13_Witness ==
  mpc = "done" /\ session_status = 0 /\ WorkersClean /\ file_frames > 1
    /\ Len(played[0]) = file_frames

WorkerIoError == reader_status = EIO \/ writer_status = EIO
WorkerCanceled == reader_status = EPIPE \/ writer_status = EPIPE

\* C14: the final status tells the causes apart, by priority: a worker I/O
\* error gives the I/O error code, else a cancelled worker gives the
\* broken-pipe code, else a failure that comes from overruns or underruns
\* alone gives a code different from both.
C14_StatusByCause ==
  mpc = "done" =>
    /\ (WorkerIoError => session_status = EIO)
    /\ (~WorkerIoError /\ WorkerCanceled => session_status = EPIPE)
    /\ (~WorkerIoError /\ ~WorkerCanceled /\ session_status # 0
          => session_status \notin {EIO, EPIPE})

\* C15: every drain of the writer removes a whole number of frames from the
\* capture ring, so that all it removes is encoded: the byte count writer_body
\* is called with is a multiple of the frame size, also while a cycle is
\* enqueuing capture samples one at a time.
C15_FrameAlignedDrain ==
  wpc[Writer] = "body" => wspace[Writer] % frame_size_w = 0

\* C16: the reader ends with EIO only after a chunk read that returned a
\* nonzero count smaller than the request while underfill was flagged; a
\* chunk read that returns all the frames asked for never ends the reader
\* with EIO (its frames are pushed instead).
C16_FullReadNeverFails ==
  (wpc[Reader] \in {"exit", "exited"} /\ wstatus[Reader] = EIO)
    => (underfill > 0 /\ r_count > 0 /\ r_count < r_nframes)

\* a step of uninterleave that counts an underrun
UnderrunStep == ppc = "uninterleave" /\ ppc' = "interleave" /\ underruns' # underruns

\* C17: a cycle counts an underrun only when the playback ring ran out of
\* samples: at the step that counts it the ring holds less than one sample;
\* with a sample available none is counted, whatever its value.
C17_UnderrunOnlyWhenShort ==
  [][ UnderrunStep => Len(rring) < sample_size ]_vars

\* the current cycle has stored a sample taken from the playback ring
DequeuedThisCycle ==
  \E k \in DOMAIN out : \E i \in DOMAIN out[k] : out[k][i] \notin {Stale, 0}

\* C18: within a cycle the captured samples are all in the capture ring
\* before the first output sample is taken from the playback ring: while the
\* cycle has capture samples left to enqueue, it has dequeued nothing.
C18_CaptureBeforePlayback ==
  ppc \in {"space", "test", "uninterleave", "interleave"} => ~DequeuedThisCycle

SignalStep == ppc = "signal" /\ ppc' = "idle"

\* C19: the callback never waits for a worker's lock.  A cycle that is under
\* way can always take its next step, whatever the workers are doing (waiting,
\* holding their lock, cancelled with the lock held, exited); the signalling
\* step wakes each worker that waits on its condition, independently of the
\* other worker's lock, and changes nothing else of a worker.
C19_CallbackNeverBlocks ==
  /\ [](ppc # "idle" => ENABLED Process)
  /\ [][ SignalStep =>
           /\ \A w \in Workers :
                wpc'[w] = IF wpc[w] = "wait" THEN "test" ELSE wpc[w]
           /\ UNCHANGED << wspace, wstatus, wexit, file_open, closes,
                           state_vars, rring, wring, count_vars >> ]_vars

\* the cycle is about to signal while the reader holds its lock inside
\* reader_body and the writer waits on its condition
C19_Witness ==
  /\ ppc = "signal" /\ wpc[Reader] = "body" /\ wpc[Writer] = "wait"
  /\ \A k \in DOMAIN played : Len(played[k]) > 0

\* C20: once the writer has ended normally, playing = DONE and the capture
\* ring is empty and stays empty: nothing is enqueued after the writer's exit.
C20_NothingLeftUndrained ==
  ((wpc[Writer] = "exited" /\ wexit[Writer] = 0) \/
   (wpc[Writer] = "exit" /\ wstatus[Writer] = FINISHED))
    => (playing = DONE /\ wring = << >>)

AllFlags == can_play /\ can_capture /\ can_read

\* C21: a cycle entered while one of can_play, can_capture, can_read is false
\* returns at once: from its entry to its return it changes neither ring, no
\* counter, not reading or playing, not the output buffers and wakes no worker.
C21_NoOpCycle ==
  [][ /\ (ppc = "idle" /\ ppc' # "idle" /\ ~AllFlags) => ppc' = "noop"
      /\ ((ppc' = "noop" \/ ppc = "noop") /\ ppc' # ppc) =>
            /\ ppc' \in {"noop", "idle"}
            /\ UNCHANGED << rring, wring, overruns, underruns, reading, playing,
                            out, played, wpc >> ]_vars

C21_Witness == ppc = "noop" /\ can_play /\ can_capture /\ ~can_read /\ wpc[Writer] = "wait"

\* C22: the flags are raised only after both workers were created and the
\* engine activated, and never lowered after that; while any flag is still
\* false both rings are empty, nothing was played or counted, the reader has
\* decoded nothing and neither worker is in or past its body.
C22_StartupGating ==
  /\ []((can_play \/ can_capture \/ can_read) =>
          mpc \notin {"setup_writer", "setup_reader", "activate"})
  /\ [][ /\ (can_play => can_play')
         /\ (can_capture => can_capture')
         /\ (can_read => can_read') ]_vars
  /\ [](~AllFlags =>
          /\ rring = << >> /\ wring = << >>
          /\ \A k \in DOMAIN played : played[k] = << >>
          /\ overruns = 0 /\ underruns = 0 /\ r_underruns = 0
          /\ file_pos = 0 /\ reading = IDLE /\ playing = IDLE
          /\ \A w \in Workers : wpc[w] \notin {"body", "mark", "exit", "exited"})

\* the writer, already allowed to run, tests its ring while can_read is false
C22_Witness == can_play /\ can_capture /\ ~can_read /\ wpc[Writer] = "is_done"

\* the step of interleave that counts an overrun
OverrunStep == ppc = "interleave" /\ overruns' # overruns

\* C23: the overflow dropped by a cycle that counts an overrun is a whole
\* number of frames: the cycle stops on a frame boundary and the failed write
\* leaves nothing of its sample in the capture ring, so what was enqueued
\* stays a multiple of channel_count_w samples.
C23_OverrunKeepsAlignment ==
  [][ OverrunStep =>
        /\ pidx % channel_count_w = 0
        /\ wring' = wring
        /\ overruns' = overruns + 1 ]_vars

\* C24: the reader never counts an underrun: the chunk it pushes fits the
\* write space it measured, the callback can only have freed more since, so
\* the playback ring takes the whole chunk and never holds more than its
\* capacity.
C24_ReaderNeverUnderruns ==
  /\ r_underruns = 0
  /\ Len(rring) <= RingBytes - 1
  /\ Len(rring) % sample_size = 0
  /\ wpc[Reader] = "body" => wspace[Reader] <= WriteSpace(rring)

\* the reader has pushed a chunk into a ring that already held samples
C24_Witness ==
  wpc[Reader] = "mark" /\ r_count > 0 /\ Len(rring) > r_count * frame_size_r
    /\ r_underruns = 0

====
